---- MODULE Spec2Model ----
(***************************************************************************)
(* PNS protocol client for the LR5-LAN signal tower (src/src/main.py).     *)
(*                                                                         *)
(* Bytes are naturals 0..255, byte strings are sequences of bytes, and     *)
(* command-line arguments are sequences of one-character strings.          *)
(*                                                                         *)
(* Spec        one run of main(): connect, dispatch on argv, one command,  *)
(*             print, close.                                               *)
(* SpecClient  the three pns_*_command functions called repeatedly on a    *)
(*             connection that is already open.                            *)
(***************************************************************************)
EXTENDS Integers, Sequences, FiniteSets, TLC

VARIABLES
    driver,            \* "main": main() runs; "client": the functions are called directly
    argv,              \* sys.argv
    pc,                \* position of the running code
    sock,              \* state of _sock: "created", "connected", "closed"
    cmd,               \* command function in progress or last run: "S", "C", "G", "none"
    send_data,         \* local send_data of the command function
    recv_data,         \* local recv_data of the command function
    status_data,       \* PnsStatusData returned by pns_get_data_command, or None
    exc,               \* exception raised by the call / propagating out of main, or "none"
    run_control_data,  \* argument of pns_run_control_command, or None
    log,               \* operations performed on _sock, in order, with the bytes passed
    out,               \* lines printed by main
    prev               \* outcome of the previous direct call ("client" only)

vars == <<driver, argv, pc, sock, cmd, run_control_data, send_data, recv_data,
          status_data, exc, log, out, prev>>

-----------------------------------------------------------------------------
(* Bounds of the model *)

\* longest reply the device sends
MaxReplyLen == 7
\* largest len(sys.argv)
MaxArgc == 8

PNS_ACK == 6
PNS_NAK == 21

\* first byte of a reply: ACK, NAK, and a value that is neither
FirstBytes == {PNS_ACK, PNS_NAK, 0}
\* the other bytes of a reply
BodyBytes == {1, 9}
\* field values of a PnsRunControlData built by a direct caller
FieldVals == {1, 255}
\* command-line tokens after the command letter: a valid pattern, two
\* out-of-range integers and a non-integer
ArgTokens == { <<"9">>, <<"2", "5", "6">>, <<"-", "1">>, <<"x">> }
\* argv[1]
CmdTokens == { <<"S">>, <<"C">>, <<"G">>, <<"X">> }

None == [none |-> TRUE]

RECURSIVE SeqsUpTo(_, _)
SeqsUpTo(S, n) ==
    IF n = 0 THEN { <<>> }
    ELSE LET shorter == SeqsUpTo(S, n - 1)
         IN  shorter \cup { Append(s, x) : s \in { t \in shorter : Len(t) = n - 1 }, x \in S }

Replies ==
    { <<>> } \cup
    { <<b>> \o rest : b \in FirstBytes, rest \in SeqsUpTo(BodyBytes, MaxReplyLen - 1) }

Argvs ==
    { << <<"main.py">> >> } \cup
    { << <<"main.py">>, c >> : c \in CmdTokens } \cup
    { << <<"main.py">>, <<"S">> >> \o rest : rest \in SeqsUpTo(ArgTokens, MaxArgc - 2) }

-----------------------------------------------------------------------------
(* Constants of the protocol *)

PNS_PRODUCT_ID == <<65, 66>>
PNS_RUN_CONTROL_COMMAND == <<83>>
PNS_CLEAR_COMMAND == <<67>>
PNS_GET_DATA_COMMAND == <<71>>

-----------------------------------------------------------------------------
(* Python and struct primitives *)

Digits == <<"0", "1", "2", "3", "4", "5", "6", "7", "8", "9">>

IsDigit(c) == \E i \in 1..10 : Digits[i] = c

DigitVal(c) == (CHOOSE i \in 1..10 : Digits[i] = c) - 1

RECURSIVE DigitsValue(_)
DigitsValue(ds) ==
    IF Len(ds) = 0 THEN 0
    ELSE 10 * DigitsValue(SubSeq(ds, 1, Len(ds) - 1)) + DigitVal(ds[Len(ds)])

\* int(s) for a str s: an optional sign, then one or more decimal digits
PyInt(s) ==
    LET signed == Len(s) > 0 /\ s[1] \in {"-", "+"}
        ds == IF signed THEN Tail(s) ELSE s
        valid == Len(ds) > 0 /\ \A i \in 1..Len(ds) : IsDigit(ds[i])
    IN  IF ~valid THEN [ok |-> FALSE, val |-> 0]
        ELSE [ok |-> TRUE,
              val |-> IF signed /\ s[1] = "-" THEN 0 - DigitsValue(ds) ELSE DigitsValue(ds)]

RECURSIVE PyStr(_)
\* str(n) for an int n >= 0
PyStr(n) ==
    IF n < 10 THEN <<Digits[n + 1]>>
    ELSE PyStr(n \div 10) \o <<Digits[(n % 10) + 1]>>

\* seq[i] with a 0-based index: IndexError when the position does not exist
Index(seq, i) ==
    IF i < Len(seq) THEN [ok |-> TRUE, val |-> seq[i + 1]]
    ELSE [ok |-> FALSE, val |-> 0]

\* seq[lo:hi] with 0-based bounds: clamps, never fails
Slice(seq, lo, hi) ==
    SubSeq(seq, lo + 1, IF hi < Len(seq) THEN hi ELSE Len(seq))

\* struct.pack('B', v): struct.error unless 0 <= v <= 255
PackB(v) ==
    IF v \in 0..255 THEN [ok |-> TRUE, bytes |-> <<v>>]
    ELSE [ok |-> FALSE, bytes |-> <<>>]

\* PackH with the byte order of '<H'
PackH_LittleEndian(v) == <<v % 256, v \div 256>>

\* struct.pack('>H', v) for 0 <= v <= 65535: big-endian
PackH(v) == <<v \div 256, v % 256>>

\* struct.pack('>2ssxH', product, command, size)
PackHeader(product, command, size) ==
    SubSeq(product, 1, 2) \o SubSeq(command, 1, 1) \o <<0>> \o PackH(size)

-----------------------------------------------------------------------------
(* Command models *)

\* PnsRunControlData.__init__: the six arguments stored as given
PnsRunControlData(red, amber, green, blue, white, buzzer) ==
    [led_red_pattern |-> red, led_amber_pattern |-> amber,
     led_green_pattern |-> green, led_blue_pattern |-> blue,
     led_white_pattern |-> white, buzzer_mode |-> buzzer]

\* PnsRunControlData.get_bytes: struct.pack('BBBBBB', ...)
get_bytes(d) ==
    LET parts == << PackB(d.led_red_pattern), PackB(d.led_amber_pattern),
                    PackB(d.led_green_pattern), PackB(d.led_blue_pattern),
                    PackB(d.led_white_pattern), PackB(d.buzzer_mode) >>
    IN  IF \E i \in 1..6 : ~parts[i].ok THEN [ok |-> FALSE, bytes |-> <<>>]
        ELSE [ok |-> TRUE,
              bytes |-> parts[1].bytes \o parts[2].bytes \o parts[3].bytes \o
                        parts[4].bytes \o parts[5].bytes \o parts[6].bytes]

\* PnsStatusData.__init__ reading the status after the first byte: data[1:6], data[6]
PnsStatusData_Stripped(data) ==
    LET b == Index(data, 6)
    IN  IF ~b.ok THEN [exc |-> "IndexError", value |-> None]
        ELSE [exc |-> "none",
              value |-> [ledPattern |-> Slice(data, 1, 6), buzzer |-> b.val]]

\* PnsStatusData.__init__: data[0:5] and int(data[5])
PnsStatusData(data) ==
    LET b == Index(data, 5)
    IN  IF ~b.ok THEN [exc |-> "IndexError", value |-> None]
        ELSE [exc |-> "none",
              value |-> [ledPattern |-> Slice(data, 0, 5), buzzer |-> b.val]]

-----------------------------------------------------------------------------
(* Protocol client: the data each command function sends *)

\* pns_run_control_command: header with data size 6, then the control data
RunControlSendData(d) ==
    LET payload == get_bytes(d)
    IN  IF ~payload.ok THEN [ok |-> FALSE, bytes |-> <<>>]
        ELSE [ok |-> TRUE,
              bytes |-> PackHeader(PNS_PRODUCT_ID, PNS_RUN_CONTROL_COMMAND, 6)
                        \o payload.bytes]

\* pns_clear_command: header with data size 0
ClearSendData == PackHeader(PNS_PRODUCT_ID, PNS_CLEAR_COMMAND, 0)

\* pns_get_data_command: header with data size 0
GetDataSendData == PackHeader(PNS_PRODUCT_ID, PNS_GET_DATA_COMMAND, 0)

(* Protocol client: what each command function does with the reply *)

\* pns_run_control_command: if recv_data[0] == PNS_NAK: raise ValueError
RunControlCheck(data) ==
    LET b == Index(data, 0)
    IN  IF ~b.ok THEN [exc |-> "IndexError", value |-> None]
        ELSE IF b.val = PNS_NAK THEN [exc |-> "negative acknowledge", value |-> None]
        ELSE [exc |-> "none", value |-> None]

\* pns_clear_command raising unless recv_data[0] == PNS_ACK
ClearCheck_Strict(data) ==
    LET b == Index(data, 0)
    IN  IF ~b.ok THEN [exc |-> "IndexError", value |-> None]
        ELSE IF b.val # PNS_ACK THEN [exc |-> "negative acknowledge", value |-> None]
        ELSE [exc |-> "none", value |-> None]

\* pns_clear_command remembering a negative acknowledge of the call before
ClearCheck_Sticky(data) ==
    LET b == Index(data, 0)
    IN  IF ~b.ok THEN [exc |-> "IndexError", value |-> None]
        ELSE IF b.val = PNS_NAK \/ prev = "negative acknowledge"
             THEN [exc |-> "negative acknowledge", value |-> None]
        ELSE [exc |-> "none", value |-> None]

\* pns_clear_command: if recv_data[0] == PNS_NAK: raise ValueError
ClearCheck(data) ==
    LET b == Index(data, 0)
    IN  IF ~b.ok THEN [exc |-> "IndexError", value |-> None]
        ELSE IF b.val = PNS_NAK THEN [exc |-> "negative acknowledge", value |-> None]
        ELSE [exc |-> "none", value |-> None]

\* pns_get_data_command: the NAK test, then PnsStatusData(recv_data)
GetDataCheck(data) ==
    LET b == Index(data, 0)
    IN  IF ~b.ok THEN [exc |-> "IndexError", value |-> None]
        ELSE IF b.val = PNS_NAK THEN [exc |-> "negative acknowledge", value |-> None]
        ELSE PnsStatusData(data)

\* the lines of main with ledPattern indexed from 1: red prints ledPattern[1]
StatusLines_OneBased(st) ==
    << [label |-> "LED Red pattern :", value |-> PyStr(st.ledPattern[2])],
       [label |-> "LED Amber pattern :", value |-> PyStr(st.ledPattern[3])],
       [label |-> "LED Green pattern :", value |-> PyStr(st.ledPattern[4])],
       [label |-> "LED Blue pattern :", value |-> PyStr(st.ledPattern[5])],
       [label |-> "LED White pattern :", value |-> PyStr(st.buzzer)],
       [label |-> "buzzer mode :", value |-> PyStr(st.buzzer)] >>

\* the lines main prints for a status
StatusLines(st) ==
    << [label |-> "LED Red pattern :", value |-> PyStr(st.ledPattern[1])],
       [label |-> "LED Amber pattern :", value |-> PyStr(st.ledPattern[2])],
       [label |-> "LED Green pattern :", value |-> PyStr(st.ledPattern[3])],
       [label |-> "LED Blue pattern :", value |-> PyStr(st.ledPattern[4])],
       [label |-> "LED White pattern :", value |-> PyStr(st.ledPattern[5])],
       [label |-> "buzzer mode :", value |-> PyStr(st.buzzer)] >>

\* main without the finally: an exception of the command function ends main at once
AfterCall_NoFinally(c, e) ==
    IF driver = "client" THEN "ret"
    ELSE IF e # "none" THEN "done"
    ELSE IF c = "G" THEN "print"
    ELSE "finally"

\* a command function that sends again after a negative acknowledge
AfterCall_RetryOnNak(c, e) ==
    IF e = "negative acknowledge" THEN "send"
    ELSE IF driver = "client" THEN "ret"
    ELSE IF e = "none" /\ c = "G" THEN "print"
    ELSE "finally"

\* where control goes when a command function ends with exception e (or "none")
AfterCall(c, e) ==
    IF driver = "client" THEN "ret"
    ELSE IF e = "none" /\ c = "G" THEN "print"
    ELSE "finally"

-----------------------------------------------------------------------------
(* State machine *)

\* main() is about to run: _sock exists, nothing has happened
Init ==
    /\ driver = "main"
    /\ argv \in Argvs
    /\ pc = "start"
    /\ sock = "created"
    /\ cmd = "none"
    /\ run_control_data = None
    /\ send_data = <<>>
    /\ recv_data = <<>>
    /\ status_data = None
    /\ exc = "none"
    /\ log = <<>>
    /\ out = <<>>
    /\ prev = "nocall"

\* a caller holds an open connection and is about to call the command functions
InitClient ==
    /\ driver = "client"
    /\ argv = <<>>
    /\ pc = "idle"
    /\ sock = "connected"
    /\ cmd = "none"
    /\ run_control_data = None
    /\ send_data = <<>>
    /\ recv_data = <<>>
    /\ status_data = None
    /\ exc = "none"
    /\ log = <<>>
    /\ out = <<>>
    /\ prev = "nocall"

argc == Len(argv)

\* socket_open: _sock.connect succeeds
SocketOpen ==
    /\ pc = "start"
    /\ sock' = "connected"
    /\ log' = Append(log, [op |-> "connect", data |-> <<>>])
    /\ pc' = "try"
    /\ UNCHANGED <<driver, argv, cmd, run_control_data, send_data, recv_data, status_data, exc, out, prev>>

\* socket_open inside the try with the connect error swallowed: main goes on
SocketOpenFails_Swallowed ==
    /\ pc = "start"
    /\ log' = Append(log, [op |-> "connect!", data |-> <<>>])
    /\ pc' = "try"
    /\ UNCHANGED <<driver, argv, sock, cmd, run_control_data, send_data, recv_data,
                   status_data, exc, out, prev>>

\* socket_open: _sock.connect raises; the call is outside the try, so main ends
SocketOpenFails ==
    /\ pc = "start"
    /\ log' = Append(log, [op |-> "connect!", data |-> <<>>])
    /\ exc' = "OSError"
    /\ pc' = "done"
    /\ UNCHANGED <<driver, argv, sock, cmd, run_control_data, send_data, recv_data, status_data, out, prev>>

\* args[1] with no argument given: IndexError inside the try
MainNoCommand ==
    /\ pc = "try"
    /\ ~Index(argv, 1).ok
    /\ exc' = "IndexError"
    /\ pc' = "finally"
    /\ UNCHANGED <<driver, argv, sock, cmd, run_control_data, send_data, recv_data, status_data, log, out, prev>>

\* args[1] == 'S' and argc >= 8: int() of args[2..7] in order, then
\* pns_run_control_command up to the call of send_command
MainRunControl ==
    /\ pc = "try"
    /\ Index(argv, 1).ok
    /\ argv[2] = <<"S">>
    /\ argc >= 8
    /\ LET n == [i \in 2..7 |-> PyInt(Index(argv, i).val)]
       IN  IF \E i \in 2..7 : ~n[i].ok
           THEN /\ exc' = "ValueError"
                /\ pc' = "finally"
                /\ UNCHANGED <<cmd, run_control_data, send_data>>
           ELSE LET d == PnsRunControlData(n[2].val, n[3].val, n[4].val,
                                           n[5].val, n[6].val, n[7].val)
                    sd == RunControlSendData(d)
                IN  /\ cmd' = "S"
                    /\ run_control_data' = d
                    /\ IF sd.ok
                       THEN /\ send_data' = sd.bytes
                            /\ pc' = "send"
                            /\ exc' = exc
                       ELSE /\ send_data' = send_data
                            /\ pc' = "finally"
                            /\ exc' = "struct.error"
    /\ UNCHANGED <<driver, argv, sock, recv_data, status_data, log, out, prev>>

\* main without the argc test: int(args[7]) raises IndexError
MainTooFewArgs_Raises ==
    /\ pc = "try"
    /\ Index(argv, 1).ok
    /\ argv[2] = <<"S">>
    /\ ~(argc >= 8)
    /\ exc' = "IndexError"
    /\ pc' = "finally"
    /\ UNCHANGED <<driver, argv, sock, cmd, run_control_data, send_data, recv_data,
                   status_data, log, out, prev>>

\* args[1] == 'S' and argc < 8: nothing is done
MainTooFewArgs ==
    /\ pc = "try"
    /\ Index(argv, 1).ok
    /\ argv[2] = <<"S">>
    /\ ~(argc >= 8)
    /\ pc' = "finally"
    /\ UNCHANGED <<driver, argv, sock, cmd, run_control_data, send_data, recv_data, status_data, exc, log, out, prev>>

\* args[1] == 'C': pns_clear_command up to the call of send_command
MainClear ==
    /\ pc = "try"
    /\ Index(argv, 1).ok
    /\ argv[2] = <<"C">>
    /\ cmd' = "C"
    /\ run_control_data' = None
    /\ send_data' = ClearSendData
    /\ pc' = "send"
    /\ UNCHANGED <<driver, argv, sock, recv_data, status_data, exc, log, out, prev>>

\* args[1] == 'G': pns_get_data_command up to the call of send_command
MainGetData ==
    /\ pc = "try"
    /\ Index(argv, 1).ok
    /\ argv[2] = <<"G">>
    /\ cmd' = "G"
    /\ run_control_data' = None
    /\ send_data' = GetDataSendData
    /\ pc' = "send"
    /\ UNCHANGED <<driver, argv, sock, recv_data, status_data, exc, log, out, prev>>

\* args[1] is none of 'S', 'C', 'G': no branch is taken
MainUnknown ==
    /\ pc = "try"
    /\ Index(argv, 1).ok
    /\ argv[2] \notin { <<"S">>, <<"C">>, <<"G">> }
    /\ pc' = "finally"
    /\ UNCHANGED <<driver, argv, sock, cmd, run_control_data, send_data, recv_data, status_data, exc, log, out, prev>>

\* send_command: _sock.send(send_data)
Send ==
    /\ pc = "send"
    /\ sock = "connected"
    /\ log' = Append(log, [op |-> "send", data |-> send_data])
    /\ pc' = "recv"
    /\ UNCHANGED <<driver, argv, sock, cmd, run_control_data, send_data, recv_data, status_data, exc, out, prev>>

\* send_command: _sock.send raises; the exception leaves the command function
SendFails ==
    /\ pc = "send"
    /\ log' = Append(log, [op |-> "send!", data |-> send_data])
    /\ exc' = "OSError"
    /\ pc' = AfterCall(cmd, "OSError")
    /\ UNCHANGED <<driver, argv, sock, cmd, run_control_data, send_data, recv_data, status_data, out, prev>>

\* send_command: recv_data = _sock.recv(1024)
Recv(reply) ==
    /\ pc = "recv"
    /\ sock = "connected"
    /\ recv_data' = reply
    /\ log' = Append(log, [op |-> "recv", data |-> reply])
    /\ pc' = "check"
    /\ UNCHANGED <<driver, argv, sock, cmd, run_control_data, send_data, status_data, exc, out, prev>>

\* send_command: _sock.recv raises; the exception leaves the command function
RecvFails ==
    /\ pc = "recv"
    /\ log' = Append(log, [op |-> "recv!", data |-> <<>>])
    /\ exc' = "OSError"
    /\ pc' = AfterCall(cmd, "OSError")
    /\ UNCHANGED <<driver, argv, sock, cmd, run_control_data, send_data, recv_data, status_data, out, prev>>

\* the rest of the command function: check the response data, return or raise
Check ==
    /\ pc = "check"
    /\ LET r == CASE cmd = "S" -> RunControlCheck(recv_data)
                  [] cmd = "C" -> ClearCheck(recv_data)
                  [] cmd = "G" -> GetDataCheck(recv_data)
       IN  /\ exc' = r.exc
           /\ status_data' = r.value
           /\ pc' = AfterCall(cmd, r.exc)
    /\ UNCHANGED <<driver, argv, sock, cmd, run_control_data, send_data, recv_data, log, out, prev>>

\* main prints the header line and the six fields of status_data
MainPrint ==
    /\ pc = "print"
    /\ out' = << [label |-> "Response data for status acquisition command", value |-> <<>>] >>
              \o StatusLines(status_data)
    /\ pc' = "finally"
    /\ UNCHANGED <<driver, argv, sock, cmd, run_control_data, send_data, recv_data, status_data, exc, log, prev>>

\* finally: socket_close(); then main returns or the exception propagates
MainFinally ==
    /\ pc = "finally"
    /\ sock' = "closed"
    /\ log' = Append(log, [op |-> "close", data |-> <<>>])
    /\ pc' = "done"
    /\ UNCHANGED <<driver, argv, cmd, run_control_data, send_data, recv_data, status_data, exc, out, prev>>

\* a direct call starts
StartCall(c, d, sd) ==
    /\ pc = "idle"
    /\ cmd' = c
    /\ run_control_data' = d
    /\ send_data' = sd
    /\ pc' = "send"
    /\ UNCHANGED <<driver, argv, sock, recv_data, status_data, exc, log, out, prev>>

\* a direct call has ended (pc = "ret": the caller sees what it returned or
\* raised); its locals are gone and the caller may call again
ClientReturn ==
    /\ pc = "ret"
    /\ prev' = exc
    /\ cmd' = "none"
    /\ run_control_data' = None
    /\ send_data' = <<>>
    /\ recv_data' = <<>>
    /\ status_data' = None
    /\ exc' = "none"
    /\ log' = <<>>
    /\ pc' = "idle"
    /\ UNCHANGED <<driver, argv, sock, out>>

\* pns_run_control_command(d) called directly, d with fields in 0..255
ClientRunControl(d) ==
    /\ pc = "idle"
    /\ RunControlSendData(d).ok
    /\ StartCall("S", d, RunControlSendData(d).bytes)

\* pns_clear_command() called directly
ClientClear == StartCall("C", None, ClearSendData)

\* pns_get_data_command() called directly
ClientGetData == StartCall("G", None, GetDataSendData)

\* the control data a direct caller passes: the example of the protocol
\* description, and every tuple that is constant but for one field
RunControlInputs ==
    { PnsRunControlData(1, 0, 2, 0, 9, 1) } \cup
    { LET f == [i \in 1..6 |-> IF i = k THEN a ELSE b]
      IN  PnsRunControlData(f[1], f[2], f[3], f[4], f[5], f[6]) :
          k \in 1..6, a \in FieldVals, b \in FieldVals }

Next ==
    \/ SocketOpen
    \/ SocketOpenFails
    \/ MainNoCommand
    \/ MainRunControl
    \/ MainTooFewArgs
    \/ MainClear
    \/ MainGetData
    \/ MainUnknown
    \/ Send
    \/ SendFails
    \/ \E reply \in Replies : Recv(reply)
    \/ RecvFails
    \/ Check
    \/ MainPrint
    \/ MainFinally

\* only pns_clear_command is called
NextClear ==
    \/ ClientClear
    \/ ClientReturn
    \/ Send
    \/ SendFails
    \/ \E reply \in Replies : Recv(reply)
    \/ RecvFails
    \/ Check

NextClient ==
    \/ \E d \in RunControlInputs : ClientRunControl(d)
    \/ ClientClear
    \/ ClientGetData
    \/ ClientReturn
    \/ Send
    \/ SendFails
    \/ \E reply \in Replies : Recv(reply)
    \/ RecvFails
    \/ Check

Spec == Init /\ [][Next]_vars

SpecClient == InitClient /\ [][NextClient]_vars

SpecClear == InitClient /\ [][NextClear]_vars

-----------------------------------------------------------------------------
(* Properties *)

Ops == [i \in 1..Len(log) |-> log[i].op]

Count(o) == Cardinality({ i \in 1..Len(log) : log[i].op = o })

Sends == { i \in 1..Len(log) : log[i].op \in {"send", "send!"} }

Transfers == { i \in 1..Len(log) : log[i].op \in {"send", "send!", "recv", "recv!"} }

\* C1: the bytes passed to the transport by each command function are 'A','B',
\* the command id ('S', 'C' or 'G'), 0x00, the payload length as a big-endian
\* 16-bit number, then the payload; the length is 6 for RunControl and 0 for
\* Clear and GetData, and the RunControl payload is the six fields unchanged in
\* the order red, amber, green, blue, white, buzzer.
C1_FrameExact ==
    \A i \in Sends :
        LET f == log[i].data
            n == Len(f) - 6
            d == run_control_data
        IN  /\ Len(f) >= 6
            /\ f[1] = 65 /\ f[2] = 66
            /\ f[3] = (CASE cmd = "S" -> 83 [] cmd = "C" -> 67 [] cmd = "G" -> 71 [] OTHER -> -1)
            /\ f[4] = 0
            /\ f[5] * 256 + f[6] = n
            /\ n = (IF cmd = "S" THEN 6 ELSE 0)
            /\ cmd = "S" =>
                  SubSeq(f, 7, Len(f)) =
                      << d.led_red_pattern, d.led_amber_pattern, d.led_green_pattern,
                         d.led_blue_pattern, d.led_white_pattern, d.buzzer_mode >>

C1_Witness ==
    /\ driver = "client"
    /\ pc = "recv"
    /\ run_control_data = PnsRunControlData(1, 0, 2, 0, 9, 1)
    /\ log = << [op |-> "send", data |-> <<65, 66, 83, 0, 0, 6, 1, 0, 2, 0, 9, 1>>] >>

\* C2: on a non-empty reply each command function raises the negative
\* acknowledge error exactly when the first reply byte is 0x15, and on a
\* negative acknowledge pns_get_data_command returns no status.
C2_NakIffFirstByte ==
    (pc = "ret" /\ Len(recv_data) > 0) =>
        /\ (exc = "negative acknowledge") <=> (recv_data[1] = 21)
        /\ (cmd = "G" /\ recv_data[1] = 21) => status_data = None

C2_Witness ==
    /\ pc = "ret"
    /\ cmd = "G"
    /\ Len(recv_data) >= 6
    /\ recv_data[1] = 21
    /\ exc = "negative acknowledge"
    /\ status_data = None

\* C3: a reply shorter than the minimum for the command (1 byte for run
\* control and clear, 6 bytes for get data) makes the call fail with
\* IncompleteResponse.
C3_ShortReplyIncomplete ==
    ( /\ pc = "ret"
      /\ Len(log) = 2
      /\ log[2].op = "recv"
      /\ Len(recv_data) < (IF cmd = "G" THEN 6 ELSE 1) )
    => exc = "IncompleteResponse"

\* C4: when pns_get_data_command succeeds on a reply of at least 6 bytes, the
\* status has ledPattern equal to bytes 0..4 of the raw reply and buzzer equal
\* to byte 5 of the raw reply.
C4_StatusIsFirstSixBytes ==
    (pc = "ret" /\ cmd = "G" /\ exc = "none" /\ Len(recv_data) >= 6) =>
        status_data =
            [ledPattern |-> << recv_data[1], recv_data[2], recv_data[3],
                               recv_data[4], recv_data[5] >>,
             buzzer |-> recv_data[6]]

C4_Witness ==
    /\ pc = "ret"
    /\ cmd = "G"
    /\ exc = "none"
    /\ Len(recv_data) = 7
    /\ status_data # None

\* the number a printed line shows
Shown(line) == PyInt(line.value)

\* C5 as stated: the LED patterns main reports are the reply bytes at offsets
\* 1..5 and the buzzer mode it reports is the reply byte at offset 6.
C5_StatusAfterAckByte ==
    (out # <<>>) =>
        /\ Len(recv_data) >= 7
        /\ \A k \in 1..6 : Shown(out[k + 1]).ok /\ Shown(out[k + 1]).val = recv_data[k + 1]

\* C5 as amended: the byte at offset 0 is compared with NAK and is also the
\* first byte of the status: the LED patterns main reports (red, amber, green,
\* blue, white) are the reply bytes at offsets 0..4, the reported red pattern
\* is never 0x15, and the reported buzzer mode is the reply byte at offset 5.
C5_StatusFromOffsetZero ==
    (out # <<>>) =>
        /\ Len(recv_data) >= 6
        /\ recv_data[1] # 21
        /\ Len(out) = 7
        /\ \A k \in 1..6 : Shown(out[k + 1]).ok /\ Shown(out[k + 1]).val = recv_data[k]
        /\ << out[2].label, out[3].label, out[4].label, out[5].label, out[6].label,
              out[7].label >>
           = << "LED Red pattern :", "LED Amber pattern :", "LED Green pattern :",
                "LED Blue pattern :", "LED White pattern :", "buzzer mode :" >>

C5_Witness ==
    /\ pc = "done"
    /\ out # <<>>
    /\ Len(recv_data) = 7
    /\ recv_data[1] = 6
    /\ recv_data[2] # recv_data[7]

C7_TransfersOnOpenConnection ==
    /\ \A i \in Transfers :
          /\ \E j \in 1..(i - 1) : log[j].op = "connect"
          /\ \A j \in 1..(i - 1) : log[j].op # "close"
    /\ Cardinality(Sends) <= 1

C7_Witness ==
    /\ pc = "done"
    /\ Ops = << "connect", "send", "recv", "close" >>

\* C8: a call of a command function performs one send and then one receive and
\* nothing more; a failed send is followed by no receive, and after a negative
\* acknowledge, a short reply or a transport error nothing more is sent or received.
C8_OneSendThenOneReceive ==
    /\ Len(log) <= 2
    /\ (pc = "ret") =>
          /\ Ops \in { << "send", "recv" >>, << "send", "recv!" >>, << "send!" >> }
          /\ (Ops # << "send", "recv" >>) <=> (exc = "OSError")
    /\ (pc \in {"recv", "check"}) => Ops[1] = "send"

C8_Witness ==
    /\ pc = "ret"
    /\ exc = "negative acknowledge"
    /\ Ops = << "send", "recv" >>

\* C9: main run with 'S' and fewer than six pattern arguments sends nothing
\* and receives nothing, and once the connection is open it ends without an
\* error after the close.
C9_TooFewArgsNoOp ==
    (Len(argv) >= 2 /\ argv[2] = <<"S">> /\ Len(argv) < 8) =>
        /\ Transfers = {}
        /\ (pc = "done" /\ Count("connect") = 1) =>
              /\ exc = "none"
              /\ Ops = << "connect", "close" >>

C9_Witness ==
    /\ pc = "done"
    /\ Len(argv) = 7
    /\ argv[2] = <<"S">>
    /\ exc = "none"
    /\ Ops = << "connect", "close" >>

\* C10: every call of pns_clear_command sends the same 6-byte frame, and what
\* the call raises is decided by the reply of that call alone, whatever the
\* call before it received or raised.
C10_ClearCallsIndependent ==
    /\ \A i \in Sends : log[i].data = <<65, 66, 67, 0, 0, 0>>
    /\ (pc = "ret" /\ Ops = << "send", "recv" >>) =>
          exc = (IF recv_data = <<>> THEN "IndexError"
                 ELSE IF recv_data[1] = 21 THEN "negative acknowledge"
                 ELSE "none")

C10_Witness ==
    /\ pc = "ret"
    /\ prev = "negative acknowledge"
    /\ exc = "none"
    /\ Ops = << "send", "recv" >>
    /\ log[1].data = <<65, 66, 67, 0, 0, 0>>

====
